---- MODULE Spec2Model ----
(***************************************************************************)
(* The fine-tuning script src/EX2/main.py as a state machine: the 80/20    *)
(* split of the dataset, the epoch / phase / batch loop of train_model,    *)
(* the StepLR schedule, and the two kinds of checkpoint files.             *)
(*                                                                         *)
(* Abstractions.  Model weights are a version number: every optimizer.step *)
(* yields a version never seen before, so two equal versions are the same  *)
(* weights.  The momentum buffers are versioned the same way.  An accuracy *)
(* running_corrects / dataset_sizes[phase] is kept as its numerator: all   *)
(* validation accuracies of a run share the denominator dataset_sizes.val, *)
(* so comparing numerators is comparing accuracies.  The learning rate is  *)
(* kept in units of 10^-6 (0.001 is 1000) and gamma = 0.1 divides by ten,  *)
(* exact decimal arithmetic.  The loss is not modelled.  The file system   *)
(* starts without a work_dir.                                              *)
(***************************************************************************)
EXTENDS Integers, Sequences, FiniteSets, TLC

\* ------------------------------------------------------------- bounds
\* Dataset sizes tried: MinSamples..MaxSamples images (a size below 2 leaves
\* the training subset empty and the script stops before any epoch).
MinSamples == 2
MaxSamples == 6
\* num_epochs tried under Spec: 1..MaxEpochs.
MaxEpochs == 4
\* num_epochs of the long runs of SpecLR, which cross two decays of the rate.
MaxEpochsLR == 15
\* DataLoader batch sizes tried: 1..MaxBatchSize.  The script passes 32; the
\* sizes are scaled down with the datasets, so that a phase has several
\* batches and a last batch smaller than the others.
MaxBatchSize == 2

\* ------------------------------------------------- program constants
InitialLR == 1000        \* lr=0.001, in units of 10^-6
step_size == 7           \* StepLR(step_size=7)
GammaDiv == 10           \* StepLR(gamma=0.1): multiply by 0.1
SaveEvery == 2           \* (epoch + 1) % 2 == 0
InitWts == 0             \* version of the weights handed to train_model

VARIABLES
    pc,               \* position of the control thread
    total_samples,    \* len(full_dataset)
    num_epochs,       \* argument of train_model
    train_idx,        \* indices of train_dataset
    val_idx,          \* indices of val_dataset
    dataset_sizes,    \* [train |-> , val |-> ]
    batch_size,       \* batch size of both DataLoaders
    epoch,            \* loop variable of "for epoch in range(num_epochs)"
    phase,            \* loop variable of "for phase in ['train', 'val']"
    mode,             \* model.train() / model.eval()
    remaining,        \* samples the phase's DataLoader has not yet yielded
    running_corrects,
    weights,          \* model.state_dict()
    momentum,         \* optimizer momentum buffers
    lr,               \* optimizer.param_groups[0]['lr']
    last_epoch,       \* scheduler.last_epoch: calls of scheduler.step()
    current_lr,       \* the rate read at the top of the epoch
    best_acc,
    best_model_wts,
    save_dir,         \* TRUE once the local save_dir is bound
    files,            \* work_dir: file name -> content, NoFile when absent
    write_count,      \* history: torch.save calls per file name
    val_accs,         \* history: validation accuracy of each finished epoch
    epoch_wts,        \* history: weights at each validation-phase end
    train_end_wts     \* history: weights at the last training-phase end

vars == <<pc, total_samples, num_epochs, train_idx, val_idx, dataset_sizes,
          batch_size, epoch, phase, mode, remaining, running_corrects, weights, momentum,
          lr, last_epoch, current_lr, best_acc, best_model_wts, save_dir,
          files, write_count, val_accs, epoch_wts, train_end_wts>>

\* ------------------------------------------------------------ helpers
Min(a, b) == IF a < b THEN a ELSE b

RECURSIVE Pow(_, _)
Pow(b, n) == IF n = 0 THEN 1 ELSE b * Pow(b, n - 1)

SeqMax(s) == CHOOSE m \in {s[i] : i \in 1..Len(s)} : \A i \in 1..Len(s) : s[i] <= m

\* A file's content is <<w>>, the saved weights; <<>> when it does not exist.
NoFile == <<>>

BestFile == <<"best_model", 0>>
EpochFile(n) == <<"model_epoch", n>>
FileNames == {BestFile} \cup {EpochFile(n) : n \in 1..num_epochs}

\* All orderings of the elements of S, as sequences.
RECURSIVE Perms(_)
Perms(S) ==
    IF S = {} THEN {<<>>}
    ELSE UNION {{Append(p, x) : p \in Perms(S \ {x})} : x \in S}

\* Batches a DataLoader yields over n samples in batches of b.
NumBatches(n, b) == (n + b - 1) \div b

\* ------------------------------------------------- the script's pieces
\* train_size = int(0.8 * len(full_dataset))
TrainSize(n) == (8 * n) \div 10

\* val_size = len(full_dataset) - train_size
ValSize(n) == n - TrainSize(n)

\* Mutant: the cut is off by one, the last training index is also validated.
random_split_overlap(perm, train_size, val_size) ==
    [train |-> {perm[i] : i \in 1..train_size},
     val   |-> {perm[i] : i \in train_size..(train_size + val_size)}]

\* random_split(full_dataset, [train_size, val_size]): a random permutation
\* of the indices, the first train_size of them and the val_size after them.
random_split(perm, train_size, val_size) ==
    [train |-> {perm[i] : i \in 1..train_size},
     val   |-> {perm[i] : i \in (train_size + 1)..(train_size + val_size)}]

\* Size of the next batch of a DataLoader with `left` samples still to yield.
BatchLen(left) == Min(batch_size, left)

\* Mutant: the optimizer also steps on validation batches.
UpdatesWeightsAlways(ph) == TRUE

\* "if phase == 'train': loss.backward(); optimizer.step()"
UpdatesWeights(ph) == ph = "train"

\* optimizer.step(): new weights, new momentum buffers.
OptimizerStep(w) == w + 1

\* Mutant: the schedule is stepped after the validation phase.
SchedulerDueAfterVal(ph) == ph = "val"

\* "if phase == 'train': scheduler.step()"
SchedulerDue(ph) == ph = "train"

\* Mutant: the decay period is one epoch too long.
StepLRLate(rate, n) == IF n % (step_size + 1) = 0 THEN rate \div GammaDiv ELSE rate

\* StepLR.step(): the rate after the call that made last_epoch = n.
StepLR(rate, n) == IF n % step_size = 0 THEN rate \div GammaDiv ELSE rate

\* Mutant: an accuracy equal to the best one also counts as an improvement.
IsNewBestOrEqual(ph, acc, best) == ph = "val" /\ acc >= best

\* "if phase == 'val' and epoch_acc > best_acc"
IsNewBest(ph, acc, best) == ph = "val" /\ acc > best

\* Mutant: the periodic checkpoint is written after the validation phase.
PeriodicDueAfterVal(ph, e) == ph = "val" /\ (e + 1) % SaveEvery = 0

\* Mutant: the periodic checkpoint is written every third epoch.
PeriodicDueEveryThird(ph, e) == ph = "train" /\ (e + 1) % (SaveEvery + 1) = 0

\* "if phase == 'train' and (epoch + 1) % 2 == 0"
PeriodicDue(ph, e) == ph = "train" /\ (e + 1) % SaveEvery = 0

\* Mutant: save_dir is bound before the loop.
SaveDirBoundAtStart(bound, improved) == TRUE

\* save_dir is bound only by the assignment inside the best-accuracy branch.
SaveDirBound(bound, improved) == bound \/ improved

\* torch.save(model.state_dict(), path)
Save(fs, name, w) == [fs EXCEPT ![name] = <<w>>]

\* Mutant: the best weights are not loaded back.
load_state_dict_skipped(cur, state) == cur

\* model.load_state_dict(state)
load_state_dict(cur, state) == state

\* --------------------------------------------------------------- Init
InitWith(sizes, epochs, batches) ==
    /\ pc = "main"
    /\ total_samples \in sizes
    /\ num_epochs \in epochs
    /\ batch_size \in batches
    /\ train_idx = {}
    /\ val_idx = {}
    /\ dataset_sizes = [train |-> 0, val |-> 0]
    /\ epoch = 0
    /\ phase = "none"
    /\ mode = "train"
    /\ remaining = 0
    /\ running_corrects = 0
    /\ weights = InitWts
    /\ momentum = 0
    /\ lr = 0
    /\ last_epoch = 0
    /\ current_lr = 0
    /\ best_acc = 0
    /\ best_model_wts = InitWts
    /\ save_dir = FALSE
    /\ files = [f \in FileNames |-> NoFile]
    /\ write_count = [f \in FileNames |-> 0]
    /\ val_accs = <<>>
    /\ epoch_wts = <<>>
    /\ train_end_wts = InitWts

Init == InitWith(MinSamples..MaxSamples, 1..MaxEpochs, 1..MaxBatchSize)

InitLR == InitWith({MinSamples}, {MaxEpochsLR}, {1})

\* ------------------------------------------------------------ actions
\* __main__ up to the call of train_model: split the dataset, build the
\* loaders, the optimizer and the scheduler.
Main ==
    /\ pc = "main"
    /\ \E perm \in Perms(0..(total_samples - 1)) :
         LET parts == random_split(perm, TrainSize(total_samples),
                                   ValSize(total_samples)) IN
           /\ train_idx' = parts.train
           /\ val_idx' = parts.val
           /\ dataset_sizes' = [train |-> Cardinality(parts.train),
                                val   |-> Cardinality(parts.val)]
    /\ lr' = InitialLR
    /\ last_epoch' = 0
    /\ pc' = "enter"
    /\ UNCHANGED <<total_samples, num_epochs, batch_size, epoch, phase, mode, remaining,
                   running_corrects, weights, momentum, current_lr, best_acc,
                   best_model_wts, save_dir, files, write_count, val_accs,
                   epoch_wts, train_end_wts>>

\* train_model, before the loop.
Enter ==
    /\ pc = "enter"
    /\ best_model_wts' = weights
    /\ best_acc' = 0
    /\ epoch' = 0
    /\ pc' = IF num_epochs > 0 THEN "epoch_start" ELSE "finish"
    /\ UNCHANGED <<total_samples, num_epochs, batch_size, train_idx, val_idx, dataset_sizes,
                   phase, mode, remaining, running_corrects, weights, momentum,
                   lr, last_epoch, current_lr, save_dir, files, write_count,
                   val_accs, epoch_wts, train_end_wts>>

\* Top of the epoch loop: read and print the current learning rate.
StartEpoch ==
    /\ pc = "epoch_start"
    /\ current_lr' = lr
    /\ phase' = "train"
    /\ pc' = "phase_start"
    /\ UNCHANGED <<total_samples, num_epochs, batch_size, train_idx, val_idx, dataset_sizes,
                   epoch, mode, remaining, running_corrects, weights, momentum,
                   lr, last_epoch, best_acc, best_model_wts, save_dir, files,
                   write_count, val_accs, epoch_wts, train_end_wts>>

\* Top of the phase loop: set the mode, reset the counters, open the loader.
StartPhase ==
    /\ pc = "phase_start"
    /\ mode' = IF phase = "train" THEN "train" ELSE "eval"
    /\ running_corrects' = 0
    /\ remaining' = dataset_sizes[phase]
    /\ pc' = "batches"
    /\ UNCHANGED <<total_samples, num_epochs, batch_size, train_idx, val_idx, dataset_sizes,
                   epoch, phase, weights, momentum, lr, last_epoch, current_lr,
                   best_acc, best_model_wts, save_dir, files, write_count,
                   val_accs, epoch_wts, train_end_wts>>

\* One iteration of "for inputs, labels in dataloaders[phase]".
BatchStep ==
    /\ pc = "batches"
    /\ remaining > 0
    /\ LET n == BatchLen(remaining) IN
         /\ remaining' = remaining - n
         /\ \E correct \in 0..n : running_corrects' = running_corrects + correct
    /\ IF UpdatesWeights(phase)
         THEN /\ weights' = OptimizerStep(weights)
              /\ momentum' = OptimizerStep(momentum)
         ELSE UNCHANGED <<weights, momentum>>
    /\ UNCHANGED <<pc, total_samples, num_epochs, batch_size, train_idx, val_idx,
                   dataset_sizes, epoch, phase, mode, lr, last_epoch,
                   current_lr, best_acc, best_model_wts, save_dir, files,
                   write_count, val_accs, epoch_wts, train_end_wts>>

\* The rest of the phase body once the loader is exhausted: the scheduler
\* step, the epoch accuracy, the best checkpoint, the periodic checkpoint,
\* and the move to the next phase or epoch.  Using save_dir while it is
\* unbound raises and ends the run.
EndPhase ==
    /\ pc = "batches"
    /\ remaining = 0
    /\ LET epoch_acc == running_corrects
           stepped   == SchedulerDue(phase)
           improved  == IsNewBest(phase, epoch_acc, best_acc)
           bound     == SaveDirBound(save_dir, improved)
           periodic  == PeriodicDue(phase, epoch)
           raises    == periodic /\ ~bound
           files1    == IF improved THEN Save(files, BestFile, weights) ELSE files
           count1    == IF improved
                          THEN [write_count EXCEPT ![BestFile] = @ + 1]
                          ELSE write_count
       IN
         /\ last_epoch' = IF stepped THEN last_epoch + 1 ELSE last_epoch
         /\ lr' = IF stepped THEN StepLR(lr, last_epoch + 1) ELSE lr
         /\ best_acc' = IF improved THEN epoch_acc ELSE best_acc
         /\ best_model_wts' = IF improved THEN weights ELSE best_model_wts
         /\ save_dir' = bound
         /\ files' = IF periodic /\ bound
                       THEN Save(files1, EpochFile(epoch + 1), weights)
                       ELSE files1
         /\ write_count' = IF periodic /\ bound
                             THEN [count1 EXCEPT ![EpochFile(epoch + 1)] = @ + 1]
                             ELSE count1
         /\ val_accs' = IF phase = "val" THEN Append(val_accs, epoch_acc) ELSE val_accs
         /\ epoch_wts' = IF phase = "val" THEN Append(epoch_wts, weights) ELSE epoch_wts
         /\ train_end_wts' = IF phase = "train" THEN weights ELSE train_end_wts
         /\ IF raises
              THEN /\ pc' = "error"
                   /\ UNCHANGED <<phase, epoch>>
              ELSE IF phase = "train"
                     THEN /\ phase' = "val"
                          /\ pc' = "phase_start"
                          /\ UNCHANGED epoch
                     ELSE /\ epoch' = epoch + 1
                          /\ pc' = IF epoch + 1 < num_epochs THEN "epoch_start" ELSE "finish"
                          /\ UNCHANGED phase
    /\ UNCHANGED <<total_samples, num_epochs, batch_size, train_idx, val_idx, dataset_sizes,
                   mode, remaining, running_corrects, weights, momentum,
                   current_lr>>

\* After the loop: load the best weights and return the model.
Return ==
    /\ pc = "finish"
    /\ weights' = load_state_dict(weights, best_model_wts)
    /\ pc' = "done"
    /\ UNCHANGED <<total_samples, num_epochs, batch_size, train_idx, val_idx, dataset_sizes,
                   epoch, phase, mode, remaining, running_corrects, momentum,
                   lr, last_epoch, current_lr, best_acc, best_model_wts,
                   save_dir, files, write_count, val_accs, epoch_wts,
                   train_end_wts>>

Next == Main \/ Enter \/ StartEpoch \/ StartPhase \/ BatchStep \/ EndPhase \/ Return

Spec == Init /\ [][Next]_vars

SpecLR == InitLR /\ [][Next]_vars

\* ---------------------------------------------------- claim vocabulary
InPhase(ph) == phase = ph /\ pc \in {"phase_start", "batches"}
Exists(f) == files[f] # NoFile
Ended == pc \in {"done", "error"}

\* Highest validation accuracy observed so far (0 before the first one).
MaxSeen == IF val_accs = <<>> THEN 0 ELSE SeqMax(val_accs)

\* Epochs (1-based positions of val_accs) whose accuracy is the highest seen.
ArgMax == {e \in 1..Len(val_accs) : val_accs[e] = MaxSeen}

\* Epochs whose validation accuracy exceeded every earlier one and 0.0.
Records ==
    {e \in 1..Len(val_accs) :
        /\ val_accs[e] > 0
        /\ \A d \in 1..(e - 1) : val_accs[d] < val_accs[e]}

EvenEpochs == {n \in 1..num_epochs : n % 2 = 0}

\* C1: whenever best_model.pth exists, it holds the weights of an epoch
\* whose validation accuracy is the highest observed so far; it exists as
\* soon as an accuracy above the initial 0.0 was observed; and it was
\* written once per epoch whose accuracy exceeded the best seen before it.
C1_BestFileIsHighest ==
    /\ Exists(BestFile) <=> MaxSeen > 0
    /\ Exists(BestFile) => \E e \in ArgMax : files[BestFile] = <<epoch_wts[e]>>
    /\ write_count[BestFile] = Cardinality(Records)

C1_Witness ==
    /\ Len(val_accs) >= 3
    /\ Cardinality(Records) = 2
    /\ val_accs[Len(val_accs)] < MaxSeen
    /\ files[BestFile] # <<epoch_wts[Len(epoch_wts)]>>

\* C2 as stated: on return the model's weights are the snapshot of an epoch
\* with the highest recorded validation accuracy.
C2_ReturnsBestEpoch ==
    pc = "done" => \E e \in ArgMax : weights = epoch_wts[e]

\* C2 as amended: the snapshot is that of the first epoch reaching the
\* highest accuracy when that accuracy is above 0.0, and the weights passed
\* in otherwise; later training steps leave the snapshot alone; the returned
\* weights are the snapshot.
C2_ReturnsSnapshot ==
    /\ pc # "main" /\ pc # "enter" =>
         best_model_wts = IF MaxSeen > 0
                            THEN epoch_wts[CHOOSE e \in ArgMax : \A d \in ArgMax : e <= d]
                            ELSE InitWts
    /\ pc = "done" => weights = best_model_wts

C2_Witness ==
    /\ pc = "done"
    /\ Len(val_accs) >= 3
    /\ Cardinality(ArgMax) >= 2
    /\ Len(val_accs) \notin ArgMax
    /\ weights # epoch_wts[Len(epoch_wts)]

\* C3 as stated: once the run has ended, model_epoch_N.pth exists exactly
\* for the even N <= num_epochs, each written once.
C3_PeriodicFilesExist ==
    Ended => \A n \in 1..num_epochs :
                /\ Exists(EpochFile(n)) <=> n \in EvenEpochs
                /\ write_count[EpochFile(n)] <= 1

\* C4 as stated: on return best_model.pth exists, next to exactly the
\* periodic files of the even epochs.
C4_BestFileOnReturn ==
    pc = "done" =>
        /\ Exists(BestFile)
        /\ \A n \in 1..num_epochs : Exists(EpochFile(n)) <=> n \in EvenEpochs

\* C4 as amended: on return best_model.pth exists exactly when some epoch's
\* validation accuracy was above 0.0, which is always so when num_epochs is
\* at least 2; the other files are exactly those of the even epochs.
C4_FilesOnReturn ==
    pc = "done" =>
        /\ Exists(BestFile) <=> MaxSeen > 0
        /\ num_epochs >= 2 => Exists(BestFile)
        /\ \A n \in 1..num_epochs : Exists(EpochFile(n)) <=> n \in EvenEpochs
        /\ Cardinality({f \in FileNames : Exists(f)}) =
             (IF MaxSeen > 0 THEN 1 ELSE 0) + (num_epochs \div 2)

C4_Witness ==
    /\ pc = "done"
    /\ num_epochs >= 4
    /\ Cardinality({f \in FileNames : Exists(f)}) = 1 + (num_epochs \div 2)

\* C5: from the top of epoch e to the end of its training batches the
\* optimizer's rate is 0.001 * 0.1^floor(e / 7), it is the rate read at the
\* top of the epoch, and the schedule has been stepped e times.
C5_LearningRate ==
    /\ pc = "epoch_start" \/ InPhase("train") =>
         /\ lr * Pow(GammaDiv, epoch \div step_size) = InitialLR
         /\ last_epoch = epoch
    /\ InPhase("train") => current_lr = lr

C5_Witness ==
    /\ InPhase("train")
    /\ epoch = 2 * step_size
    /\ remaining < dataset_sizes.train
    /\ lr * 100 = InitialLR

\* A batch of the given phase is processed in this step.
BatchOf(ph) == pc = "batches" /\ phase = ph /\ remaining' < remaining

\* The phase body after the last batch runs in this step.
PhaseEnds(ph) == pc = "batches" /\ phase = ph /\ remaining = 0 /\ pc' # "batches"

ScheduleStepped == last_epoch' # last_epoch

PeriodicWritten(n) == write_count'[EpochFile(n)] # write_count[EpochFile(n)]

\* C6 as stated: the schedule is stepped only once the epoch's validation
\* phase has run over all its batches.
C6_ScheduleAfterValidate ==
    [][ScheduleStepped => PhaseEnds("val")]_vars

\* C6 as amended: within an epoch the training batches come first, then the
\* schedule step, then the validation batches, then the epoch increment: the
\* schedule is stepped at the end of the training phase and at no other
\* time, validation starts only after it, and the epoch index moves only at
\* the end of the validation phase.
C6_EpochOrder ==
    [][ /\ ScheduleStepped =>
             PhaseEnds("train") /\ last_epoch = epoch /\ last_epoch' = epoch + 1
        /\ BatchOf("train") => last_epoch = epoch
        /\ PhaseEnds("train") =>
             /\ momentum = (epoch + 1) * NumBatches(dataset_sizes.train, batch_size)
             /\ ScheduleStepped
             /\ epoch' = epoch
        /\ BatchOf("val") =>
             /\ last_epoch = epoch + 1
             /\ momentum = (epoch + 1) * NumBatches(dataset_sizes.train, batch_size)
        /\ epoch' # epoch =>
             PhaseEnds("val") /\ last_epoch = epoch + 1 /\ epoch' = epoch + 1
        /\ phase' # phase =>
             \/ pc = "epoch_start" /\ phase' = "train"
             \/ PhaseEnds("train") /\ phase' = "val"
      ]_vars

C6_Witness ==
    /\ InPhase("val")
    /\ epoch >= 1
    /\ remaining = 0
    /\ dataset_sizes.val > batch_size
    /\ dataset_sizes.train > batch_size
    /\ last_epoch = epoch + 1

\* C7 as stated: model_epoch_N.pth is written only once the validation
\* phase of epoch N has completed.
C7_PeriodicAfterValidate ==
    [][\A n \in 1..num_epochs : PeriodicWritten(n) => PhaseEnds("val") /\ n = epoch + 1]_vars

\* C7 as amended: model_epoch_N.pth is written at the end of the training
\* phase of epoch N, N even, with the weights that phase left: before that
\* epoch's validation phase and before its best-checkpoint decision.
C7_PeriodicAfterTrain ==
    [][\A n \in 1..num_epochs : PeriodicWritten(n) =>
          /\ PhaseEnds("train")
          /\ n = epoch + 1
          /\ n % 2 = 0
          /\ Len(val_accs) = n - 1
          /\ phase' = "val"
          /\ files'[EpochFile(n)] = <<weights>>
          /\ files'[BestFile] = files[BestFile]
      ]_vars

C7_Witness ==
    /\ num_epochs >= 2
    /\ Exists(EpochFile(2))
    /\ Len(val_accs) = 1
    /\ InPhase("val")

\* C8: the split has floor(0.8 * N) training indices and the rest are
\* validation indices, the two sets are disjoint and cover 0..N-1, and no
\* step of the run changes them.
C8_Split ==
    /\ [](pc # "main" =>
            /\ 5 * Cardinality(train_idx) <= 4 * total_samples
            /\ 4 * total_samples < 5 * (Cardinality(train_idx) + 1)
            /\ Cardinality(val_idx) = total_samples - Cardinality(train_idx)
            /\ dataset_sizes = [train |-> Cardinality(train_idx),
                                val   |-> Cardinality(val_idx)]
            /\ train_idx \cap val_idx = {}
            /\ train_idx \cup val_idx = 0..(total_samples - 1))
    /\ [][pc # "main" => train_idx' = train_idx /\ val_idx' = val_idx]_vars

C8_Witness ==
    /\ InPhase("val")
    /\ epoch >= 2
    /\ total_samples % 5 # 0
    /\ Cardinality(val_idx) >= 2

\* C9: a validation batch changes neither the weights, nor the momentum
\* buffers, nor the learning rate; through the validation phase the weights
\* are those the training phase ended with, and those are the ones a new
\* best snapshots and saves; the optimizer steps only on training batches.
C9_ValidateChangesNothing ==
    /\ [][BatchOf("val") =>
            /\ weights' = weights /\ momentum' = momentum /\ lr' = lr
            /\ running_corrects' >= running_corrects]_vars
    /\ [](InPhase("val") => weights = train_end_wts)
    /\ [][PhaseEnds("val") =>
            /\ weights' = train_end_wts
            /\ best_model_wts' # best_model_wts =>
                 best_model_wts' = train_end_wts /\ files'[BestFile] = <<train_end_wts>>]_vars
    /\ [][momentum' # momentum => BatchOf("train") /\ weights' # weights]_vars

C9_Witness ==
    /\ InPhase("val")
    /\ remaining = 0
    /\ dataset_sizes.val > batch_size
    /\ running_corrects > 0
    /\ weights = train_end_wts
    /\ weights > InitWts

\* C10: the run ends in the error state exactly at the periodic checkpoint
\* of the first even epoch, when no validation accuracy exceeded 0.0 before
\* it: save_dir is unbound and no file was written; such a run gets no
\* further than that checkpoint; and a run that wrote best_model.pth, which
\* binds save_dir, never ends in the error state.
C10_UnboundSaveDir ==
    /\ pc = "error" =>
         /\ ~save_dir
         /\ \A f \in FileNames : ~Exists(f) /\ write_count[f] = 0
         /\ phase = "train" /\ epoch + 1 = SaveEvery
         /\ val_accs = <<0>>
    /\ val_accs # <<>> /\ val_accs[1] = 0 /\ num_epochs >= SaveEvery =>
         /\ epoch + 1 = SaveEvery
         /\ pc = "epoch_start" \/ InPhase("train") \/ pc = "error"
    /\ write_count[BestFile] > 0 => save_dir /\ pc # "error"

C10_Witness ==
    /\ pc = "error"
    /\ num_epochs > SaveEvery
    /\ weights > InitWts

TypeOK ==
    /\ pc \in {"main", "enter", "epoch_start", "phase_start", "batches",
               "finish", "done", "error"}
    /\ phase \in {"none", "train", "val"}
    /\ epoch \in 0..num_epochs
    /\ remaining >= 0
    /\ Len(val_accs) = Len(epoch_wts)
====
